---- MODULE Spec2Model ----
(***************************************************************************)
(* Model of the PDF survey extraction edge function                        *)
(* (src/supabase/functions/test-openai/index.ts, the process-pdf handler   *)
(* of lines 133-1042) and of the two client retries that invoke it         *)
(* (src/unnamed/part_006).                                                 *)
(*                                                                         *)
(* JavaScript values are records [k, n, s]: k is the type tag, n the       *)
(* number in tenths (3.7 is 37), s the string as a sequence of characters. *)
(***************************************************************************)
EXTENDS Integers, Sequences, FiniteSets, TLC

\* ------------------------------------------------------------------ bounds
MaxRuns == 2        \* handler invocations that can be in flight together
MaxInvocations == 2 \* requests the handler receives in one behaviour
MaxPages == 2       \* pages of a document on the vision path
MaxConcurrentPages == 1  \* the same, in the concurrent behaviours

\* ------------------------------------------------------- program constants
LikertMin == 1
LikertMax == 5
RecommendMin == 0
RecommendMax == 10
MaxTextLength == 1000
MeaningfulTextLength == 5
ActualWordsThreshold == 50
StructureThreshold == 100
OCRLikeThreshold == 50
MinExtractedLength == 20

\* ------------------------------------------------------------ JS values
Null == [k |-> "null", n |-> 0, s |-> <<>>]
Num(t) == [k |-> "num", n |-> t, s |-> <<>>]
Str(chars) == [k |-> "str", n |-> 0, s |-> chars]
\* a numeric string: its characters are abstracted to the number they spell
NumStr(t) == [k |-> "numstr", n |-> t, s |-> <<"#">>]
\* a property that is absent from an object
Undefined == [k |-> "undef", n |-> 0, s |-> <<>>]
\* true and false; n is the number the comparison operators coerce them to
Bool(b) == [k |-> "bool", n |-> IF b THEN 10 ELSE 0, s |-> <<>>]

IsString(v) == v.k \in {"str", "numstr"}
IsNullish(v) == v.k \in {"null", "undef"}

\* JavaScript truthiness (!value is ~Truthy(value))
Truthy(v) ==
  CASE IsNullish(v) -> FALSE
    [] v.k \in {"num", "bool"} -> v.n # 0
    [] OTHER -> Len(v.s) > 0

\* parseInt on a numeric string: the integer part, truncated toward zero
parseInt(t) == IF t >= 0 THEN (t \div 10) * 10 ELSE 0 - (((0 - t) \div 10) * 10)

\* validateRating (index.ts 602-607); a string that spells no number ("str")
\* parses to NaN; a value that is no string is compared and returned as it is
validateRating(value, min, max) ==
  IF IsNullish(value) \/ (IsString(value) /\ Len(value.s) = 0) THEN Null
  ELSE IF value.k = "str" THEN Null
  ELSE LET num == IF value.k = "numstr" THEN parseInt(value.n) ELSE value.n
       IN IF num < min * 10 \/ num > max * 10 THEN Null
          ELSE IF IsString(value) THEN Num(num) ELSE value

\* ------------------------------------------------------------ strings
Whitespace == {" "}

RECURSIVE trimStart(_)
trimStart(s) ==
  IF s = <<>> THEN <<>>
  ELSE IF Head(s) \in Whitespace THEN trimStart(Tail(s)) ELSE s

RECURSIVE trimEnd(_)
trimEnd(s) ==
  IF s = <<>> THEN <<>>
  ELSE IF s[Len(s)] \in Whitespace THEN trimEnd(SubSeq(s, 1, Len(s) - 1)) ELSE s

trim(s) == trimEnd(trimStart(s))

lowerChar(c) ==
  CASE c = "A" -> "a"
    [] c = "B" -> "b"
    [] OTHER -> c

toLowerCase(s) == [i \in 1..Len(s) |-> lowerChar(s[i])]

\* the trimmed string is returned whatever its length
validateText_noLimit(value) ==
  IF ~Truthy(value) \/ ~IsString(value) THEN Null
  ELSE [value EXCEPT !.s = trim(value.s)]

\* validateText (index.ts 609-614)
validateText(value) ==
  IF ~Truthy(value) \/ ~IsString(value) THEN Null
  ELSE LET cleaned == trim(value.s)
       IN IF Len(cleaned) = 0 \/ Len(cleaned) > MaxTextLength THEN Null
          ELSE [value EXCEPT !.s = cleaned]

\* [^\s@]+ over a slice of s
NoSpaceAt(s, from, to) ==
  /\ from <= to
  /\ \A i \in from..to : s[i] \notin Whitespace /\ s[i] # "@"

\* emailRegex.test: ^[^\s@]+@[^\s@]+\.[^\s@]+$
emailRegexTest(s) ==
  \E i \in 1..Len(s) : \E j \in 1..Len(s) :
    /\ i < j
    /\ s[i] = "@"
    /\ s[j] = "."
    /\ NoSpaceAt(s, 1, i - 1)
    /\ NoSpaceAt(s, i + 1, j - 1)
    /\ NoSpaceAt(s, j + 1, Len(s))

\* the trimmed address is returned in the case it was written in
validateEmail_keepsCase(value) ==
  IF ~Truthy(value) \/ ~IsString(value) THEN Null
  ELSE IF emailRegexTest(trim(value.s)) THEN Str(trim(value.s))
  ELSE Null

\* validateEmail (index.ts 616-620)
validateEmail(value) ==
  IF ~Truthy(value) \/ ~IsString(value) THEN Null
  ELSE IF emailRegexTest(trim(value.s)) THEN Str(toLowerCase(trim(value.s)))
  ELSE Null

\* ------------------------------------------------------------ SurveyResponse
LikertFields ==
  {"q1_rating", "q2_rating", "q3_rating", "q4_rating", "q5_rating",
   "q6_rating", "q7_rating", "q8_rating", "q9_rating"}
RatingFields == LikertFields \cup {"q10_rating"}
\* the text fields hasMeaningfulSurveyData inspects (index.ts 632-636)
AnswerFields ==
  {"learned_1", "learned_2", "learned_3", "suggestions", "comments",
   "q11_expectations", "q12_overall_rating"}
ContactFields == {"participant_name", "company", "email", "phone"}
TextFields == AnswerFields \cup {"interested_more", "participant_name", "company", "phone"}
SurveyFields ==
  {"course_name", "response_date"} \cup RatingFields \cup TextFields \cup {"email"}

\* an object none of whose properties is set
EmptyObject == [f \in SurveyFields |-> Undefined]

\* the object with the given properties set: With(o, "q1_rating", Num(40))
With(o, f, v) == [o EXCEPT ![f] = v]

\* the text fields and the email are copied without validation
validResponse_textUnvalidated(response, courseName) ==
  [f \in SurveyFields |->
     CASE f = "course_name" -> courseName
       [] f = "response_date" ->
            IF Truthy(response[f]) THEN response[f] ELSE Null
       [] f \in LikertFields -> validateRating(response[f], LikertMin, LikertMax)
       [] f = "q10_rating" -> validateRating(response[f], RecommendMin, RecommendMax)
       [] OTHER -> response[f]]

\* the candidate's own course_name is kept when it has one
validResponse_keepsCourseName(response, courseName) ==
  [f \in SurveyFields |->
     CASE f = "course_name" ->
            IF Truthy(response[f]) THEN response[f] ELSE courseName
       [] f = "response_date" ->
            IF Truthy(response[f]) THEN response[f] ELSE Null
       [] f \in LikertFields -> validateRating(response[f], LikertMin, LikertMax)
       [] f = "q10_rating" -> validateRating(response[f], RecommendMin, RecommendMax)
       [] f = "email" -> validateEmail(response[f])
       [] OTHER -> validateText(response[f])]

\* the map of index.ts 490-515 (text) and 949-974 (vision)
validResponse(response, courseName) ==
  [f \in SurveyFields |->
     CASE f = "course_name" -> courseName
       [] f = "response_date" ->
            IF Truthy(response[f]) THEN response[f] ELSE Null
       [] f \in LikertFields -> validateRating(response[f], LikertMin, LikertMax)
       [] f = "q10_rating" -> validateRating(response[f], RecommendMin, RecommendMax)
       [] f = "email" -> validateEmail(response[f])
       [] OTHER -> validateText(response[f])]

\* hasMeaningfulSurveyData (index.ts 622-645)
hasMeaningfulSurveyData(response) ==
  LET hasRatings == \E f \in RatingFields : ~IsNullish(response[f])
      hasTextResponses ==
        \E f \in AnswerFields :
          Truthy(response[f]) /\ Len(trim(response[f].s)) > MeaningfulTextLength
      hasContactInfo ==
        \E f \in ContactFields :
          Truthy(response[f]) /\ Len(trim(response[f].s)) > 0
  IN hasRatings \/ hasTextResponses \/ hasContactInfo

\* extractSurveyDataEnhanced (index.ts 825-836): sets the course name only
extractSurveyDataEnhanced(text, courseName) ==
  With(EmptyObject, "course_name", courseName)

\* the placeholder of index.ts 256-260
Today == Str(<<"d">>)
placeholderForm(courseName) ==
  With(With(EmptyObject, "course_name", courseName), "response_date", Today)

\* ------------------------------------------------------------ LLM content
\* The message content as JSON.parse reads it.  kind "invalid" does not parse;
\* "null" is the JSON null; "array" is a bare array of elems; "object" is an
\* object with its own survey properties (self), and possibly a `responses`
\* and a `surveys` property.  Such a property is [set, items]: set is
\* "absent", "array" (items are its elements) or "other" (a truthy non-array).
\* An element is [obj |-> TRUE, v |-> <the object>] or a primitive.
Item(o) == [obj |-> TRUE, v |-> o]
Primitive == [obj |-> FALSE, v |-> EmptyObject]
Absent == [set |-> "absent", items |-> <<>>]
ArrayProp(items) == [set |-> "array", items |-> items]

Invalid ==
  [kind |-> "invalid", elems |-> <<>>, responses |-> Absent, surveys |-> Absent,
   self |-> EmptyObject]
JsonNull == [Invalid EXCEPT !.kind = "null"]
BareArray(items) == [Invalid EXCEPT !.kind = "array", !.elems = items]
BareObject(o) == [Invalid EXCEPT !.kind = "object", !.self = o]
ResponsesObject(items) == [BareObject(EmptyObject) EXCEPT !.responses = ArrayProp(items)]
SurveysObject(items) == [BareObject(EmptyObject) EXCEPT !.surveys = ArrayProp(items)]

\* JSON.parse and a property read both succeed
Parses(data) == data.kind \in {"array", "object"}

\* index.ts 488-516 (text) and 947-975 (vision): filter, map, filter
validResponses(responses, courseName) ==
  LET objects == SelectSeq(responses, LAMBDA it : it.obj)
      mapped == [i \in 1..Len(objects) |-> validResponse(objects[i].v, courseName)]
  IN SelectSeq(mapped, hasMeaningfulSurveyData)

\* index.ts 473-485: the candidates of the text variant
textCandidates(parsedData) ==
  IF parsedData.kind = "array" THEN parsedData.elems
  ELSE IF parsedData.responses.set = "array" THEN parsedData.responses.items
  ELSE IF parsedData.surveys.set = "array" THEN parsedData.surveys.items
  ELSE <<Item(parsedData.self)>>

\* index.ts 944-945: the candidates of the vision variant
visionCandidates(pageData) ==
  IF pageData.responses.set = "array" THEN pageData.responses.items ELSE <<>>

\* ------------------------------------------------------------ text
\* A text is [toks, readable, words, encoded].  toks is the string cut into
\* tokens [sep, len] of len characters: sep 0 is plain text, -1 a run of
\* whitespace, -2 a run of non-printable characters, -3 a word of one
\* repeated character, and k in 1..NumSeparators a match of the k-th
\* separator of splitIntoFormSections.  readable is the total length of the
\* matches of /[a-zA-Z\s]{3,}/g, words the number of matches of
\* /\b[a-zA-Z]{4,}\b/g, encoded whether one of the markers DCTDecode,
\* stream, endobj, XObject occurs.
NumSeparators == 18
MaxSections == 50
MergeTrigger == 15
MergeLimit == 1500
MinSectionLength == 50

Tok(sep, len) == [sep |-> sep, len |-> len]
Space == Tok(-1, 1)

RECURSIVE TokLen(_)
\* the length of the string: the sum of its tokens' lengths, by halves
TokLen(toks) ==
  IF Len(toks) = 0 THEN 0
  ELSE IF Len(toks) = 1 THEN toks[1].len
  ELSE TokLen(SubSeq(toks, 1, Len(toks) \div 2))
         + TokLen(SubSeq(toks, Len(toks) \div 2 + 1, Len(toks)))

Text(toks, readable, words, encoded) ==
  [toks |-> toks, readable |-> readable, words |-> words, encoded |-> encoded]
EmptyText == Text(<<>>, 0, 0, FALSE)
Length(text) == TokLen(text.toks)

RECURSIVE trimToksStart(_)
trimToksStart(toks) ==
  IF toks = <<>> THEN <<>>
  ELSE IF Head(toks).sep = -1 THEN trimToksStart(Tail(toks)) ELSE toks

RECURSIVE trimToksEnd(_)
trimToksEnd(toks) ==
  IF toks = <<>> THEN <<>>
  ELSE IF toks[Len(toks)].sep = -1 THEN trimToksEnd(SubSeq(toks, 1, Len(toks) - 1))
  ELSE toks

trimToks(toks) == trimToksEnd(trimToksStart(toks))

\* .replace(/\s+/g, ' ').replace(/[^\x20-\x7E]/g, ' ')
collapseToks(toks) ==
  [i \in 1..Len(toks) |->
     CASE toks[i].sep = -1 -> Tok(-1, 1)
       [] toks[i].sep = -2 -> Tok(-1, toks[i].len)
       [] OTHER -> toks[i]]

\* cleanExtractedText (index.ts 742-748)
cleanExtractedText(text) ==
  [text EXCEPT !.toks =
     trimToks(SelectSeq(collapseToks(text.toks), LAMBDA t : t.sep # -3))]

\* cleanAndNormalizeText (index.ts 750-757)
cleanAndNormalizeText(text) ==
  [text EXCEPT !.toks = trimToks(collapseToks(text.toks))]

\* ------------------------------------------------------------ detector
\* readableTextRatio < 0.3 (index.ts 348, 362); 0 / 0 is NaN, and NaN < 0.3
\* is false
lowReadableRatio(rawText) ==
  /\ Length(rawText) > 0
  /\ 10 * rawText.readable < 3 * Length(rawText)

hasEncodedData(rawText) == rawText.encoded
hasActualWords(rawText) == rawText.words > ActualWordsThreshold
isLikelyScanned(rawText) == hasEncodedData(rawText) /\ ~hasActualWords(rawText)

\* the condition of index.ts 362
routesToVision(rawText) == lowReadableRatio(rawText) \/ isLikelyScanned(rawText)

\* ------------------------------------------------------------ segmenter
\* section.split(separator): the parts between the matches of separator k
split(toks, k) ==
  LET matches == {i \in 1..Len(toks) : toks[i].sep = k}
      n == Cardinality(matches)
      at(p) == IF p = 0 THEN 0
               ELSE IF p = n + 1 THEN Len(toks) + 1
               ELSE CHOOSE i \in matches : Cardinality({j \in matches : j < i}) = p - 1
  IN [p \in 1..(n + 1) |-> SubSeq(toks, at(p - 1) + 1, at(p) - 1)]

longEnough(toks) == TokLen(trimToks(toks)) > MinSectionLength

RECURSIVE splitRange(_, _, _, _)
\* index.ts 788-791: the parts pushed for sections lo..hi, in order
splitRange(sections, k, lo, hi) ==
  IF lo > hi THEN <<>>
  ELSE IF lo = hi THEN SelectSeq(split(sections[lo], k), longEnough)
  ELSE splitRange(sections, k, lo, (lo + hi) \div 2)
         \o splitRange(sections, k, (lo + hi) \div 2 + 1, hi)

\* index.ts 787-791: newSections for one separator
splitAll(sections, k) == splitRange(sections, k, 1, Len(sections))

RECURSIVE applySeparators(_, _)
\* index.ts 786-796: the cascade from separator k on
applySeparators(sections, k) ==
  IF k > NumSeparators THEN sections
  ELSE CHOOSE result \in
         {applySeparators(next, k + 1) :
            next \in {IF Len(newSections) > Len(sections) /\ Len(newSections) <= MaxSections
                      THEN newSections ELSE sections :
                        newSections \in {splitAll(sections, k)}}} : TRUE

RECURSIVE mergeSections_ignoresBlockLength(_, _, _)
\* the limit is tested against the section alone, not the block so far
mergeSections_ignoresBlockLength(sections, mergedSections, currentSection) ==
  IF sections = <<>>
  THEN IF longEnough(currentSection)
       THEN Append(mergedSections, trimToks(currentSection)) ELSE mergedSections
  ELSE LET section == Head(sections)
       IN IF TokLen(section) < MergeLimit
          THEN mergeSections_ignoresBlockLength(Tail(sections), mergedSections,
                                                currentSection \o <<Space>> \o section)
          ELSE mergeSections_ignoresBlockLength(Tail(sections),
                                                IF longEnough(currentSection)
                                                THEN Append(mergedSections, trimToks(currentSection))
                                                ELSE mergedSections,
                                                section)

RECURSIVE mergeSections(_, _, _)
\* index.ts 803-816: the merge loop over the remaining sections, with the
\* merged sections so far and currentSection
mergeSections(sections, mergedSections, currentSection) ==
  IF sections = <<>>
  THEN IF longEnough(currentSection)
       THEN Append(mergedSections, trimToks(currentSection)) ELSE mergedSections
  ELSE LET section == Head(sections)
       IN IF TokLen(currentSection) + TokLen(section) < MergeLimit
          THEN mergeSections(Tail(sections), mergedSections,
                             currentSection \o <<Space>> \o section)
          ELSE mergeSections(Tail(sections),
                             IF longEnough(currentSection)
                             THEN Append(mergedSections, trimToks(currentSection))
                             ELSE mergedSections,
                             section)

\* the input itself is kept only if it is longer than 50 characters
splitIntoFormSections_filtersInput(text) ==
  LET sections == applySeparators(SelectSeq(<<text.toks>>, longEnough), 1)
      merged == IF Len(sections) > MergeTrigger
                THEN mergeSections(sections, <<>>, <<>>) ELSE sections
  IN SubSeq(merged, 1, IF Len(merged) < MaxSections THEN Len(merged) ELSE MaxSections)

\* splitIntoFormSections (index.ts 759-823)
splitIntoFormSections(text) ==
  LET sections == applySeparators(<<text.toks>>, 1)
      merged == IF Len(sections) > MergeTrigger
                THEN mergeSections(sections, <<>>, <<>>) ELSE sections
  IN SubSeq(merged, 1, IF Len(merged) < MaxSections THEN Len(merged) ELSE MaxSections)

\* ------------------------------------------------------------ documents
\* A document is what the three extraction strategies find in its bytes:
\* each of structure, ocr, raw is [fails, text], fails when the strategy
\* throws inside its try block, text what it has gathered before cleaning.
Found(text) == [fails |-> FALSE, text |-> text]
Throws == [fails |-> TRUE, text |-> EmptyText]

\* extractTextFromPDFStructure (index.ts 648-681)
extractTextFromPDFStructure(pdf) ==
  IF pdf.structure.fails THEN EmptyText ELSE cleanExtractedText(pdf.structure.text)

\* a failure returns what was gathered before it instead of ''
extractTextWithOCRLike_keepsGathered(pdf) == cleanExtractedText(pdf.ocr.text)

\* extractTextWithOCRLike (index.ts 683-713)
extractTextWithOCRLike(pdf) ==
  IF pdf.ocr.fails THEN EmptyText ELSE cleanExtractedText(pdf.ocr.text)

\* extractRawTextFromPDF (index.ts 715-740)
extractRawTextFromPDF(pdf) ==
  IF pdf.raw.fails THEN EmptyText ELSE cleanExtractedText(pdf.raw.text)

\* the raw decode is decided on the structural text, not on the text held
cascade_rawOnStructure(pdf) ==
  LET t1 == extractTextFromPDFStructure(pdf)
      tryOCR == Length(t1) < StructureThreshold
      t2 == IF tryOCR THEN extractTextWithOCRLike(pdf) ELSE t1
      tryRaw == Length(t1) < OCRLikeThreshold
  IN [text |-> IF tryRaw THEN extractRawTextFromPDF(pdf) ELSE t2,
      attempted |-> <<"structure">> \o (IF tryOCR THEN <<"ocr">> ELSE <<>>)
                      \o (IF tryRaw THEN <<"raw">> ELSE <<>>)]

\* index.ts 540-559: the strategies the cascade runs, in order, and the text
\* it holds after them
cascade(pdf) ==
  LET t1 == extractTextFromPDFStructure(pdf)
      tryOCR == Length(t1) < StructureThreshold
      t2 == IF tryOCR THEN extractTextWithOCRLike(pdf) ELSE t1
      tryRaw == Length(t2) < OCRLikeThreshold
  IN [text |-> IF tryRaw THEN extractRawTextFromPDF(pdf) ELSE t2,
      attempted |-> <<"structure">> \o (IF tryOCR THEN <<"ocr">> ELSE <<>>)
                      \o (IF tryRaw THEN <<"raw">> ELSE <<>>)]

\* index.ts 540-559: the text the cascade retains
cascadeText(pdf) == cascade(pdf).text

\* processPDFWithTraditionalMethods (index.ts 534-599)
processPDFWithTraditionalMethods(pdf, courseName) ==
  LET extractedText == cascadeText(pdf)
  IN IF Length(extractedText) < MinExtractedLength THEN <<>>
     ELSE LET formSections == splitIntoFormSections(cleanAndNormalizeText(extractedText))
              extractedData == [i \in 1..Len(formSections) |->
                                  extractSurveyDataEnhanced(formSections[i], courseName)]
          IN SelectSeq(extractedData, hasMeaningfulSurveyData)

\* ------------------------------------------------------------ environment
Jobs == {"A", "B"}
NoId == "none"
Runs == 1..MaxRuns

\* course_uploads columns the handler reads and never writes
\* (src/unnamed/part_001 41-53): job B has no creator and no stored URL
CourseName(j) == Str(<<"c", j>>)
StoredFileUrl(j) == IF j = "A" THEN "valid" ELSE ""
HasCreator(j) == j = "A"

\* user_settings rows a creator may have: [row, key, enabled]
SettingsRows ==
  {[row |-> FALSE, key |-> FALSE, enabled |-> FALSE],
   [row |-> TRUE, key |-> TRUE, enabled |-> TRUE],
   [row |-> TRUE, key |-> TRUE, enabled |-> FALSE],
   [row |-> TRUE, key |-> FALSE, enabled |-> TRUE]}

\* the documents of the model
NativeText == Text(<<Tok(0, 400)>>, 300, 60, FALSE)
ScannedText == Text(<<Tok(0, 200)>>, 20, 3, TRUE)
FiftyWordsText == Text(<<Tok(0, 400)>>, 300, ActualWordsThreshold, TRUE)
Documents ==
  << [structure |-> Found(NativeText), ocr |-> Found(NativeText), raw |-> Found(NativeText)],
     [structure |-> Found(EmptyText), ocr |-> Found(EmptyText), raw |-> Found(EmptyText)],
     [structure |-> Throws, ocr |-> Found(EmptyText), raw |-> Found(ScannedText)],
     [structure |-> Found(EmptyText), ocr |-> Throws, raw |-> Found(FiftyWordsText)] >>

\* candidate objects an LLM answer may hold
GoodCandidate ==
  With(With(With(EmptyObject, "q1_rating", Num(40)),
            "email", Str(<<"A", "@", "b", ".", "c">>)),
       "course_name", Str(<<"o">>))
StringRatingCandidate == With(EmptyObject, "q1_rating", NumStr(37))
OutOfRangeCandidate == With(EmptyObject, "q1_rating", Num(70))
BooleanRatingCandidate == With(EmptyObject, "q1_rating", Bool(TRUE))
FractionRatingCandidate == With(EmptyObject, "q1_rating", Num(37))
PaddedTextCandidate ==
  With(With(With(EmptyObject, "q10_rating", Num(0)),
            "comments", Str(<<" ", "a", "a", " ">>)),
       "email", Str(<<" ", "A", "@", "b", ".", "c">>))

\* message contents of the text call and of a vision page call
TextContents ==
  {Invalid, JsonNull, ResponsesObject(<<>>),
   ResponsesObject(<<Item(GoodCandidate)>>),
   ResponsesObject(<<Item(StringRatingCandidate), Primitive>>),
   ResponsesObject(<<Item(OutOfRangeCandidate)>>),
   BareArray(<<Item(GoodCandidate)>>),
   SurveysObject(<<Item(GoodCandidate)>>),
   BareObject(GoodCandidate),
   ResponsesObject(<<Item(BooleanRatingCandidate)>>),
   ResponsesObject(<<Item(FractionRatingCandidate)>>),
   ResponsesObject(<<Item(PaddedTextCandidate)>>)}
PageContents ==
  {Invalid, ResponsesObject(<<>>), ResponsesObject(<<Item(GoodCandidate)>>),
   BareArray(<<Item(GoodCandidate)>>)}

\* ------------------------------------------------------------ state
VARIABLES
  processing_status,   \* course_uploads.processing_status, by job id
  total_forms,         \* course_uploads.total_forms
  processed_forms,     \* course_uploads.processed_forms
  survey_responses,    \* the survey_responses table, rows in insertion order
  invocations,         \* requests received so far
  run,                 \* the handler invocations in flight, by slot
  input,               \* the arguments of a function applied on its own
  output               \* and its result

vars == <<processing_status, total_forms, processed_forms, survey_responses,
          invocations, run, input, output>>
db == <<processing_status, total_forms, processed_forms, survey_responses>>

NoResponse ==
  [sent |-> FALSE, success |-> FALSE, formsProcessed |-> 0, method |-> "", error |-> ""]

NoInput == [fn |-> "none"]
NoOutput == [done |-> FALSE]

\* a slot no request occupies.  Besides the handler's locals the record keeps
\* what the invocation has done so far (the fields after `response`).
Idle ==
  [pc |-> "idle", uploadId |-> NoId, retry |-> FALSE, clientRetry |-> FALSE,
   hasKey |-> FALSE, openai_enabled |-> FALSE, storedEnabled |-> FALSE,
   pdf |-> 0, images |-> 0, i |-> 0, allExtractedData |-> <<>>,
   extractedForms |-> <<>>, error |-> "", response |-> NoResponse,
   route |-> "", llmError |-> "", usedTraditional |-> FALSE,
   textRequests |-> 0, visionRequests |-> 0, inFlight |-> 0,
   pageForms |-> <<>>, pages |-> <<>>, yielded |-> -1, writes |-> <<>>,
   inserted |-> <<>>]

Init ==
  /\ processing_status = [j \in Jobs |-> "pending"]
  /\ total_forms = [j \in Jobs |-> 0]
  /\ processed_forms = [j \in Jobs |-> 0]
  /\ survey_responses = <<>>
  /\ invocations = 0
  /\ run = [r \in Runs |-> Idle]
  /\ input = NoInput
  /\ output = NoOutput

Set(r, rec) == run' = [run EXCEPT ![r] = rec]

\* supabase .update(...).eq('id', uploadId): the store applies it or rejects
\* it; the client resolves with { error } either way and does not throw
Wrote(r, status, applied) ==
  Append(run[r].writes, [status |-> status, applied |-> applied])

\* ------------------------------------------------------------ handler
\* throw inside the handler's try block (index.ts 141-300)
Throw(rec, message) == [rec EXCEPT !.pc = "catch", !.error = message]

\* index.ts 147-155: a request arrives; Upload sends { uploadId, fileUrl },
\* retryUpload sends retry: true as well (part_006 1470-1477)
Invoke(r) ==
  /\ run[r].pc = "idle"
  /\ UNCHANGED <<input, output>>
  /\ invocations < MaxInvocations
  /\ invocations' = invocations + 1
  /\ \E uploadId \in Jobs \cup {NoId}, retry \in BOOLEAN :
       LET rec == [Idle EXCEPT !.uploadId = uploadId, !.retry = retry]
       IN Set(r, IF uploadId = NoId THEN Throw(rec, "Missing uploadId")
                 ELSE [rec EXCEPT !.pc = "setProcessing"])
  /\ UNCHANGED db

\* retryProcessing (part_006 203-236): the button of a failed upload sets
\* the status itself and then calls the handler without a retry flag
retryProcessing(r) ==
  /\ run[r].pc = "idle"
  /\ UNCHANGED <<input, output>>
  /\ invocations < MaxInvocations
  /\ invocations' = invocations + 1
  /\ \E uploadId \in Jobs, applied \in BOOLEAN :
       /\ processing_status[uploadId] = "failed"
       /\ processing_status' =
            IF applied THEN [processing_status EXCEPT ![uploadId] = "processing"]
            ELSE processing_status
       /\ Set(r, [Idle EXCEPT !.uploadId = uploadId, !.clientRetry = TRUE,
                              !.pc = "setProcessing"])
  /\ UNCHANGED <<total_forms, processed_forms, survey_responses>>

\* a run refuses a job that another run is processing
SetProcessing_checksStatus(r) ==
  /\ run[r].pc = "setProcessing"
  /\ UNCHANGED <<input, output>>
  /\ IF processing_status[run[r].uploadId] = "processing"
     THEN /\ Set(r, Throw(run[r], "Already processing"))
          /\ UNCHANGED processing_status
     ELSE /\ processing_status' = [processing_status EXCEPT ![run[r].uploadId] = "processing"]
          /\ Set(r, [run[r] EXCEPT !.pc = "getUpload",
                                   !.writes = Wrote(r, "processing", TRUE)])
  /\ UNCHANGED <<total_forms, processed_forms, survey_responses, invocations>>

\* index.ts 159-163
SetProcessing(r) ==
  /\ run[r].pc = "setProcessing"
  /\ UNCHANGED <<input, output>>
  /\ \E applied \in BOOLEAN :
       /\ processing_status' =
            IF applied THEN [processing_status EXCEPT ![run[r].uploadId] = "processing"]
            ELSE processing_status
       /\ Set(r, [run[r] EXCEPT !.pc = "getUpload",
                                !.writes = Wrote(r, "processing", applied)])
  /\ UNCHANGED <<total_forms, processed_forms, survey_responses, invocations>>

\* index.ts 165-213: the upload row, the creator's settings, the file URL
GetUpload(r) ==
  /\ run[r].pc = "getUpload"
  /\ UNCHANGED <<input, output>>
  /\ \E found \in BOOLEAN, settings \in SettingsRows, reqFileUrl \in {"", "valid", "invalid"} :
       LET j == run[r].uploadId
           row == HasCreator(j) /\ settings.row
           fileUrl == IF reqFileUrl # "" THEN reqFileUrl ELSE StoredFileUrl(j)
           rec == [run[r] EXCEPT !.hasKey = row /\ settings.key,
                                 !.storedEnabled = row /\ settings.enabled,
                                 !.openai_enabled = TRUE]          \* line 193
       IN Set(r, IF ~found THEN Throw(run[r], "Upload not found")
                 ELSE IF fileUrl = "" THEN Throw(rec, "No file URL available")
                 ELSE IF fileUrl # "valid" THEN Throw(rec, "Invalid file URL format")
                 ELSE [rec EXCEPT !.pc = "download"])
  /\ UNCHANGED <<db, invocations>>

\* index.ts 215-231
Download(r) ==
  /\ run[r].pc = "download"
  /\ UNCHANGED <<input, output>>
  /\ \E outcome \in {"error", "nodata", "data"}, pdf \in 1..Len(Documents) :
       Set(r, CASE outcome = "error" ->
                     Throw(run[r], "Failed to download PDF: storage error")
                [] outcome = "nodata" ->
                     Throw(run[r], "No PDF data received from storage")
                [] OTHER -> [run[r] EXCEPT !.pc = "extract", !.pdf = pdf])
  /\ UNCHANGED <<db, invocations>>

\* the return of processPDFWithOpenAI / processPDFWithTraditionalMethods to
\* the handler (index.ts 238, 241)
Returned(rec, forms) ==
  [rec EXCEPT !.pc = "extracted", !.extractedForms = forms, !.inFlight = 0,
              !.i = 0, !.allExtractedData = <<>>]

\* the catch clause rethrows instead of falling back
Fallback_rethrows(rec, error) ==
  Throw([rec EXCEPT !.llmError = error, !.inFlight = 0], error)

\* the catch of processPDFWithOpenAI (index.ts 527-531)
Fallback(rec, error) ==
  Returned([rec EXCEPT !.llmError = error, !.usedTraditional = TRUE],
           processPDFWithTraditionalMethods(Documents[rec.pdf], CourseName(rec.uploadId)))

\* the text request is sent before the detector is consulted
processPDFWithOpenAI_requestFirst(rec) ==
  LET rawText == extractRawTextFromPDF(Documents[rec.pdf])
  IN IF routesToVision(rawText)
     THEN [rec EXCEPT !.route = "vision", !.pc = "convert", !.textRequests = 1]
     ELSE [rec EXCEPT !.route = "text", !.pc = "textCall",
                      !.textRequests = 1, !.inFlight = 1]

\* processPDFWithOpenAI up to its first await (index.ts 337-433): the raw
\* text, the detector, then the vision path or the text request
processPDFWithOpenAI(rec) ==
  LET rawText == extractRawTextFromPDF(Documents[rec.pdf])
  IN IF routesToVision(rawText)
     THEN [rec EXCEPT !.route = "vision", !.pc = "convert"]
     ELSE [rec EXCEPT !.route = "text", !.pc = "textCall",
                      !.textRequests = 1, !.inFlight = 1]

\* index.ts 236-242: the path choice
Extract(r) ==
  /\ run[r].pc = "extract"
  /\ UNCHANGED <<input, output>>
  /\ LET rec == run[r]
     IN Set(r, IF rec.openai_enabled /\ rec.hasKey
               THEN processPDFWithOpenAI(rec)
               ELSE Returned([rec EXCEPT !.route = "traditional", !.usedTraditional = TRUE],
                             processPDFWithTraditionalMethods(
                               Documents[rec.pdf], CourseName(rec.uploadId))))
  /\ UNCHANGED <<db, invocations>>

\* index.ts 433-531: the answer of the text completion request
TextResponse(r) ==
  /\ run[r].pc = "textCall"
  /\ UNCHANGED <<input, output>>
  /\ \E outcome \in {"network", "badjson", "nochoices", "content"}, content \in TextContents :
       Set(r, IF outcome # "content" THEN Fallback(run[r], outcome)
              ELSE IF ~Parses(content) THEN Fallback(run[r], "parse")
              ELSE Returned(run[r],
                     validResponses(textCandidates(content), CourseName(run[r].uploadId))))
  /\ UNCHANGED <<db, invocations>>

\* the requests of all the pages left are sent together
NextPage_allAtOnce(rec) ==
  IF rec.i < rec.images
  THEN [rec EXCEPT !.pc = "visionCall", !.visionRequests = rec.images,
                   !.inFlight = rec.images - rec.i]
  ELSE Returned(rec, rec.allExtractedData)

\* the head of the page loop (index.ts 849-854): the next request, or the
\* return of index.ts 986
NextPage(rec) ==
  IF rec.i < rec.images
  THEN [rec EXCEPT !.pc = "visionCall", !.visionRequests = @ + 1, !.inFlight = 1]
  ELSE Returned(rec, rec.allExtractedData)

\* convertPDFToImages (index.ts 995-1042) as awaited at index.ts 843
Convert(r) ==
  /\ run[r].pc = "convert"
  /\ UNCHANGED <<input, output>>
  /\ \E outcome \in {"throw", "images"}, n \in 1..MaxPages :
       Set(r, IF outcome = "throw" THEN Fallback(run[r], "convert")
              ELSE NextPage([run[r] EXCEPT !.images = n, !.i = 0]))
  /\ UNCHANGED <<db, invocations>>

\* index.ts 933-983: one page's answer; pages keeps the page number
\* (i + 1, as logged) of each response pushed
PageDone(rec, valid) ==
  NextPage([rec EXCEPT !.i = @ + 1, !.inFlight = 0,
                       !.allExtractedData = @ \o valid, !.pageForms = @ \o valid,
                       !.pages = @ \o [k \in 1..Len(valid) |-> rec.i + 1]])

VisionResponse(r) ==
  /\ run[r].pc = "visionCall"
  /\ UNCHANGED <<input, output>>
  /\ \E outcome \in {"network", "notok", "badjson", "nochoices", "emptychoices", "content"},
        content \in PageContents :
       Set(r, CASE outcome \in {"network", "badjson", "nochoices"} ->
                     Fallback(run[r], outcome)               \* thrown out of the loop
                [] outcome \in {"notok", "emptychoices"} -> PageDone(run[r], <<>>)
                [] OTHER ->
                     IF ~Parses(content) THEN PageDone(run[r], <<>>)
                     ELSE PageDone(run[r],
                            validResponses(visionCandidates(content),
                                           CourseName(run[r].uploadId))))
  /\ UNCHANGED <<db, invocations>>

\* no placeholder is pushed
formsToInsert_noPlaceholder(rec) == rec.extractedForms

\* the placeholder is pushed whatever was extracted
formsToInsert_alwaysPlaceholder(rec) ==
  Append(rec.extractedForms, placeholderForm(CourseName(rec.uploadId)))

\* index.ts 253-262: extractedForms once the placeholder is pushed
formsToInsert(rec) ==
  IF Len(rec.extractedForms) = 0
  THEN <<placeholderForm(CourseName(rec.uploadId))>>
  ELSE rec.extractedForms

\* the survey_responses columns (part_001 60-101): course_name is NOT NULL,
\* a rating column is an integer within its CHECK bounds, the others text
acceptsRow(form) ==
  /\ ~IsNullish(form["course_name"])
  /\ \A f \in LikertFields :
       \/ IsNullish(form[f])
       \/ /\ form[f].k = "num"
          /\ form[f].n % 10 = 0
          /\ LikertMin * 10 <= form[f].n /\ form[f].n <= LikertMax * 10
  /\ \/ IsNullish(form["q10_rating"])
     \/ /\ form["q10_rating"].k = "num"
        /\ form["q10_rating"].n % 10 = 0
        /\ RecommendMin * 10 <= form["q10_rating"].n
        /\ form["q10_rating"].n <= RecommendMax * 10
  /\ \A f \in TextFields \cup {"email"} : IsNullish(form[f]) \/ IsString(form[f])

\* index.ts 253-277: the placeholder and the insert; the insert fails when
\* the store refuses a row, or for any other reason
Persist(r) ==
  /\ run[r].pc = "extracted"
  /\ UNCHANGED <<input, output>>
  /\ LET rec == run[r]
         forms == formsToInsert(rec)
         responsesToInsert ==
           [i \in 1..Len(forms) |-> [upload_id |-> rec.uploadId, form |-> forms[i]]]
         pushed == [rec EXCEPT !.extractedForms = forms,
                               !.yielded = Len(rec.extractedForms)]
     IN \E inserts \in BOOLEAN :
          IF inserts /\ \A i \in 1..Len(forms) : acceptsRow(forms[i])
          THEN /\ survey_responses' = survey_responses \o responsesToInsert
               /\ Set(r, [pushed EXCEPT !.pc = "complete", !.inserted = responsesToInsert])
          ELSE /\ UNCHANGED survey_responses
               /\ Set(r, Throw(pushed, "insert error"))
  /\ UNCHANGED <<processing_status, total_forms, processed_forms, invocations>>

\* the completed update without its .eq('id', uploadId) filter
Complete_everyJob(r) ==
  /\ run[r].pc = "complete"
  /\ UNCHANGED <<input, output>>
  /\ LET rec == run[r]
         n == Len(rec.extractedForms)
     IN /\ processing_status' = [j \in Jobs |-> "completed"]
        /\ total_forms' = [j \in Jobs |-> n]
        /\ processed_forms' = [j \in Jobs |-> n]
        /\ Set(r, [rec EXCEPT !.pc = "done",
                              !.writes = Wrote(r, "completed", TRUE),
                              !.response =
                                [sent |-> TRUE, success |-> TRUE, formsProcessed |-> n,
                                 method |-> IF rec.openai_enabled THEN "OpenAI"
                                            ELSE "Traditional",
                                 error |-> ""]])
  /\ UNCHANGED <<survey_responses, invocations>>

\* index.ts 279-300
Complete(r) ==
  /\ run[r].pc = "complete"
  /\ UNCHANGED <<input, output>>
  /\ LET rec == run[r]
         n == Len(rec.extractedForms)
     IN \E applied \in BOOLEAN :
          /\ IF applied
             THEN /\ processing_status' = [processing_status EXCEPT ![rec.uploadId] = "completed"]
                  /\ total_forms' = [total_forms EXCEPT ![rec.uploadId] = n]
                  /\ processed_forms' = [processed_forms EXCEPT ![rec.uploadId] = n]
             ELSE UNCHANGED <<processing_status, total_forms, processed_forms>>
          /\ Set(r, [rec EXCEPT !.pc = "done",
                                !.writes = Wrote(r, "completed", applied),
                                !.response =
                                  [sent |-> TRUE, success |-> TRUE, formsProcessed |-> n,
                                   method |-> IF rec.openai_enabled THEN "OpenAI"
                                              ELSE "Traditional",
                                   error |-> ""]])
  /\ UNCHANGED <<survey_responses, invocations>>

\* index.ts 301-331
Catch(r) ==
  /\ run[r].pc = "catch"
  /\ UNCHANGED <<input, output>>
  /\ LET rec == run[r]
         answered == [rec EXCEPT !.pc = "done",
                                 !.response =
                                   [sent |-> TRUE, success |-> FALSE, formsProcessed |-> 0,
                                    method |-> "",
                                    error |-> IF rec.error # "" THEN rec.error
                                              ELSE "Processing failed"]]
     IN IF rec.uploadId = NoId
        THEN /\ Set(r, answered)
             /\ UNCHANGED processing_status
        ELSE \E applied \in BOOLEAN :
               /\ processing_status' =
                    IF applied THEN [processing_status EXCEPT ![rec.uploadId] = "failed"]
                    ELSE processing_status
               /\ Set(r, [answered EXCEPT !.writes = Wrote(r, "failed", applied)])
  /\ UNCHANGED <<total_forms, processed_forms, survey_responses, invocations>>

\* the response is sent and the invocation is over
Return(r) ==
  /\ run[r].pc = "done"
  /\ UNCHANGED <<input, output>>
  /\ Set(r, Idle)
  /\ UNCHANGED <<db, invocations>>

Handler(r) ==
  \/ Invoke(r)
  \/ retryProcessing(r)
  \/ SetProcessing(r)
  \/ GetUpload(r)
  \/ Download(r)
  \/ Extract(r)
  \/ TextResponse(r)
  \/ Convert(r)
  \/ VisionResponse(r)
  \/ Persist(r)
  \/ Complete(r)
  \/ Catch(r)
  \/ Return(r)

\* one invocation at a time, as section 5 of the specification asks of the
\* callers
Next == Handler(1)

Spec == Init /\ [][Next]_vars

\* the handler as the platform runs it: every request gets an invocation of
\* its own, and the invocations interleave at their awaits
\* what the environment does in the concurrent behaviours: documents 1 and
\* 3 (one for the text path, one for the vision path) of at most
\* MaxConcurrentPages pages, settings rows whose key and flag agree, and a
\* store that applies every status update
ConcurrentDocuments == {1, 3}
ConcurrentEnvironment(r) ==
  /\ run'[r].pdf \in {0} \cup ConcurrentDocuments
  /\ run'[r].images <= MaxConcurrentPages
  /\ run'[r].hasKey = run'[r].storedEnabled
  /\ \A i \in 1..Len(run'[r].writes) : run'[r].writes[i].applied

HandlerConcurrent(r) ==
  \/ Invoke(r) /\ ConcurrentEnvironment(r)
  \/ retryProcessing(r) /\ ConcurrentEnvironment(r)
  \/ SetProcessing(r) /\ ConcurrentEnvironment(r)
  \/ GetUpload(r) /\ ConcurrentEnvironment(r)
  \/ Download(r) /\ ConcurrentEnvironment(r)
  \/ Extract(r) /\ ConcurrentEnvironment(r)
  \/ TextResponse(r) /\ ConcurrentEnvironment(r)
  \/ Convert(r) /\ ConcurrentEnvironment(r)
  \/ VisionResponse(r) /\ ConcurrentEnvironment(r)
  \/ Persist(r) /\ ConcurrentEnvironment(r)
  \/ Complete(r) /\ ConcurrentEnvironment(r)
  \/ Catch(r) /\ ConcurrentEnvironment(r)
  \/ Return(r) /\ ConcurrentEnvironment(r)

NextConcurrent == \E r \in Runs : HandlerConcurrent(r)

SpecConcurrent == Init /\ [][NextConcurrent]_vars

\* ------------------------------------------------------------ functions
\* The pure functions applied on their own: Init draws the arguments, the
\* action applies the function.
MaxRatingTenths == 120    \* rating values range over -2.0 .. 12.0 in tenths
MaxTextWords == 60
MaxShortLen == 4          \* length of the short strings validateText is given
MaxEmailLen == 6          \* length of the strings validateEmail is given
MaxPieces == 51           \* pieces a separator cuts a text into
SeparatorLength == 8      \* characters of a separator match
MaxFound == 400           \* characters of the longest text a strategy finds
MaxBlocks == 4            \* "Name:" blocks of a multi-participant document

RatingValues ==
  {Null, Undefined, Str(<<>>), Str(<<"x">>), Bool(TRUE), Bool(FALSE)}
    \cup {Num(t) : t \in (0 - 20)..MaxRatingTenths}
    \cup {NumStr(t) : t \in (0 - 20)..MaxRatingTenths}

RatingInputs ==
  {[fn |-> "validateRating", value |-> v, min |-> b[1], max |-> b[2]] :
     v \in RatingValues, b \in {<<LikertMin, LikertMax>>, <<RecommendMin, RecommendMax>>}}

\* raw texts: a word has at least four letters, each of them readable
DetectorTexts ==
  {Text(<<Tok(0, len)>>, readable, words, encoded) :
     len \in {0, 6, 200, 400, 1000},
     readable \in {0, 6, 59, 60, 119, 120, 200, 299, 300, 400},
     words \in {0, 1, 49, 50, 51, MaxTextWords},
     encoded \in BOOLEAN}

DetectorInputs ==
  {[fn |-> "detector", rawText |-> t] :
     t \in {x \in DetectorTexts :
              /\ x.readable <= Length(x)
              /\ 4 * x.words <= x.readable
              /\ (x.encoded => x.readable >= 6)}}

\* strings of up to MaxShortLen characters over the given alphabet
RECURSIVE Strings(_, _)
Strings(alphabet, n) ==
  IF n = 0 THEN {<<>>}
  ELSE LET shorter == Strings(alphabet, n - 1)
       IN shorter \cup {Append(s, c) : s \in {x \in shorter : Len(x) = n - 1}, c \in alphabet}

\* a string of n characters other than whitespace
Filler(n) == [i \in 1..n |-> "x"]

\* the values validateText is given: short strings with and without
\* surrounding whitespace, strings around the length limit, other values
TextValues ==
  {Null, Undefined, Num(0), Num(30), NumStr(37)}
    \cup {Str(s) : s \in Strings({" ", "a"}, MaxShortLen)}
    \cup {Str(pre \o Filler(n) \o post) :
            n \in (MaxTextLength - 1)..(MaxTextLength + 1),
            pre \in {<<>>, <<" ">>}, post \in {<<>>, <<" ", " ">>}}

TextInputs == {[fn |-> "validateText", value |-> v] : v \in TextValues}

\* the values validateEmail is given
EmailValues ==
  {Null, Undefined, Num(0), Num(30), NumStr(37)}
    \cup {Str(s) : s \in Strings({"A", "@", ".", " "}, MaxEmailLen)}

EmailInputs == {[fn |-> "validateEmail", value |-> v] : v \in EmailValues}

\* the responses hasMeaningfulSurveyData is given: nothing set, everything
\* null, and everything null but one rating, text or contact field
AllNull == [f \in SurveyFields |-> Null]

MeaningfulInputs ==
  {[fn |-> "hasMeaningfulSurveyData", response |-> o] :
     o \in {EmptyObject, AllNull}
         \cup {With(AllNull, f, v) :
                 f \in RatingFields, v \in {Num(0), Num(10), Num(50)}}
         \cup {With(AllNull, f, Str(Filler(n))) :
                 f \in TextFields \cup {"email"},
                 n \in {1, MeaningfulTextLength, MeaningfulTextLength + 1}}}

\* n pieces of len characters each with a match of separator k between them
RECURSIVE Pieces(_, _, _)
Pieces(n, len, k) ==
  IF n = 0 THEN <<>>
  ELSE IF n = 1 THEN <<Tok(0, len)>>
  ELSE <<Tok(0, len), Tok(k, SeparatorLength)>> \o Pieces(n - 1, len, k)

\* n groups cut by separator 1, each of m pieces cut by separator 2
RECURSIVE Groups(_, _, _)
Groups(n, m, len) ==
  IF n = 1 THEN Pieces(m, len, 2)
  ELSE Pieces(m, len, 2) \o <<Tok(1, SeparatorLength)>> \o Groups(n - 1, m, len)

\* the texts splitIntoFormSections is given
SegmenterTexts ==
  {EmptyText, Text(<<Space>>, 0, 0, FALSE)}
    \cup {Text(Pieces(n, len, k), 0, 0, FALSE) :
            n \in {1, 2, MergeTrigger, MergeTrigger + 1, MergeTrigger + 2,
                   MaxSections, MaxPieces},
            len \in {1, MinSectionLength, MinSectionLength + 1, 60, 500, 800,
                     MergeLimit},
            k \in {1, NumSeparators}}
    \cup {Text(Groups(n, m, 60), 0, 0, FALSE) : n \in {4, 10}, m \in {5, 6}}

SegmenterInputs == {[fn |-> "splitIntoFormSections", text |-> t] : t \in SegmenterTexts}

\* a text of n plain characters
PlainText(n) == IF n = 0 THEN EmptyText ELSE Text(<<Tok(0, n)>>, n, 0, FALSE)

\* what a strategy finds: a text around the thresholds, or a failure, before
\* or after it has gathered text
StrategyOutcomes ==
  {Throws, [fails |-> TRUE, text |-> PlainText(MaxFound)]}
    \cup {Found(PlainText(n)) :
            n \in {0, MinExtractedLength - 1, MinExtractedLength,
                   OCRLikeThreshold - 1, OCRLikeThreshold,
                   StructureThreshold - 1, StructureThreshold, MaxFound}}

CascadeInputs ==
  {[fn |-> "cascade", pdf |-> [structure |-> a, ocr |-> b, raw |-> c]] :
     a \in StrategyOutcomes, b \in StrategyOutcomes,
     c \in {Throws, Found(EmptyText), Found(PlainText(OCRLikeThreshold - 1)),
            Found(PlainText(MaxFound))}}

\* n blocks, each a match of the "name:" separator (the third of index.ts
\* 760-783) followed by len characters of answers
RECURSIVE NameBlocks(_, _)
NameBlocks(n, len) ==
  IF n = 0 THEN <<>>
  ELSE <<Tok(3, SeparatorLength), Tok(0, len)>> \o NameBlocks(n - 1, len)

\* documents whose structural extraction finds n "Name:" blocks
TraditionalInputs ==
  {[fn |-> "processPDFWithTraditionalMethods", blocks |-> n, len |-> len,
    courseName |-> CourseName(j),
    pdf |-> [structure |-> Found(Text(NameBlocks(n, len), n * len, n * 10, FALSE)),
             ocr |-> o, raw |-> Throws]] :
     n \in 0..MaxBlocks, len \in {MinSectionLength, MinSectionLength + 1, 200},
     j \in Jobs, o \in {Throws, Found(PlainText(MaxFound))}}

CandidatesInputs ==
  {[fn |-> "candidates", variant |-> v, content |-> c] :
     v \in {"text", "vision"}, c \in TextContents}

InitFunctions ==
  /\ processing_status = [j \in Jobs |-> "pending"]
  /\ total_forms = [j \in Jobs |-> 0]
  /\ processed_forms = [j \in Jobs |-> 0]
  /\ survey_responses = <<>>
  /\ invocations = 0
  /\ run = [r \in Runs |-> Idle]
  /\ \/ input \in RatingInputs
     \/ input \in DetectorInputs
     \/ input \in CandidatesInputs
     \/ input \in TextInputs
     \/ input \in EmailInputs
     \/ input \in MeaningfulInputs
     \/ input \in SegmenterInputs
     \/ input \in CascadeInputs
     \/ input \in TraditionalInputs
  /\ output = NoOutput

Result(v) == [done |-> TRUE, result |-> v]

ApplyValidateRating ==
  /\ input.fn = "validateRating"
  /\ ~output.done
  /\ output' = Result(validateRating(input.value, input.min, input.max))
  /\ UNCHANGED <<db, invocations, run, input>>

ApplyDetector ==
  /\ input.fn = "detector"
  /\ ~output.done
  /\ output' = Result(routesToVision(input.rawText))
  /\ UNCHANGED <<db, invocations, run, input>>

ApplyCandidates ==
  /\ input.fn = "candidates"
  /\ ~output.done
  /\ Parses(input.content)
  /\ output' = Result(IF input.variant = "text" THEN textCandidates(input.content)
                      ELSE visionCandidates(input.content))
  /\ UNCHANGED <<db, invocations, run, input>>

\* validateText applied, and applied again to its own result
ApplyValidateText ==
  /\ input.fn = "validateText"
  /\ ~output.done
  /\ output' = [done |-> TRUE, result |-> validateText(input.value),
                again |-> validateText(validateText(input.value))]
  /\ UNCHANGED <<db, invocations, run, input>>

\* validateEmail applied, and applied again to its own result
ApplyValidateEmail ==
  /\ input.fn = "validateEmail"
  /\ ~output.done
  /\ output' = [done |-> TRUE, result |-> validateEmail(input.value),
                again |-> validateEmail(validateEmail(input.value))]
  /\ UNCHANGED <<db, invocations, run, input>>

ApplyMeaningful ==
  /\ input.fn = "hasMeaningfulSurveyData"
  /\ ~output.done
  /\ output' = Result(hasMeaningfulSurveyData(input.response))
  /\ UNCHANGED <<db, invocations, run, input>>

ApplySegmenter ==
  /\ input.fn = "splitIntoFormSections"
  /\ ~output.done
  /\ output' = Result(splitIntoFormSections(input.text))
  /\ UNCHANGED <<db, invocations, run, input>>

ApplyCascade ==
  /\ input.fn = "cascade"
  /\ ~output.done
  /\ output' = [done |-> TRUE, result |-> cascade(input.pdf).text,
                attempted |-> cascade(input.pdf).attempted]
  /\ UNCHANGED <<db, invocations, run, input>>

ApplyTraditional ==
  /\ input.fn = "processPDFWithTraditionalMethods"
  /\ ~output.done
  /\ output' = Result(processPDFWithTraditionalMethods(input.pdf, input.courseName))
  /\ UNCHANGED <<db, invocations, run, input>>

NextFunctions ==
  \/ ApplyValidateRating
  \/ ApplyDetector
  \/ ApplyCandidates
  \/ ApplyValidateText
  \/ ApplyValidateEmail
  \/ ApplyMeaningful
  \/ ApplySegmenter
  \/ ApplyCascade
  \/ ApplyTraditional

SpecFunctions == InitFunctions /\ [][NextFunctions]_vars

\* ------------------------------------------------------------ claims
Active(r) == run[r].pc # "idle"
Job(r) == run[r].uploadId
WroteStatus(r, status) == \E i \in 1..Len(run[r].writes) : run[r].writes[i].status = status

\* C1: a job's status goes back from completed or failed to processing only
\* in answer to an explicit retry: the retry button of a failed upload
\* (retryProcessing) or a request carrying retry: true.  This is the last
\* clause of the claim; the handler never reads `retry`.
C1_BackwardOnlyOnRetry ==
  [][\A j \in Jobs :
       (processing_status[j] \in {"completed", "failed"} /\ processing_status'[j] = "processing")
         => \E r \in Runs :
              /\ run'[r].uploadId = j
              /\ \/ run[r].pc = "idle" /\ run'[r].clientRetry
                 \/ run[r].pc = "setProcessing" /\ (run[r].retry \/ run[r].clientRetry)]_vars

\* C2: an exception raised inside the LLM path ends in the heuristic path;
\* the handler never sees it, so a run that met one fails only if its insert
\* fails.
C2_LLMExceptionFallsBack ==
  \A r \in Runs :
    run[r].llmError # ""
      => /\ run[r].usedTraditional
         /\ run[r].pc \in {"extracted", "complete", "catch", "done"}
         /\ run[r].error \in {"", "insert error"}
         /\ (WroteStatus(r, "failed") \/ (run[r].response.sent /\ ~run[r].response.success))
              => run[r].error = "insert error"

\* a run that met an LLM exception and completed all the same
C2_Witness ==
  \E r \in Runs :
    /\ run[r].llmError \in {"network", "parse", "nochoices", "convert"}
    /\ run[r].pc = "done"
    /\ run[r].response.success
    /\ processing_status[Job(r)] = "completed"

\* the messages of the download and insert failures
FatalErrors ==
  {"Failed to download PDF: storage error", "No PDF data received from storage",
   "insert error"}

\* C3: when the download fails or returns no data, or the insert fails, the
\* run ends with the job failed, never writes completed, and answers
\* success = false with the error message.
C3_FatalErrorEndsFailed ==
  \A r \in Runs :
    (run[r].pc = "done" /\ run[r].error \in FatalErrors)
      => /\ processing_status[Job(r)] = "failed"
         /\ ~WroteStatus(r, "completed")
         /\ run[r].response.sent
         /\ ~run[r].response.success
         /\ run[r].response.error = run[r].error

\* the row the placeholder of job j makes
PlaceholderRow(j) == [upload_id |-> j, form |-> placeholderForm(CourseName(j))]

C5_PageFailureSkipsOnlyThatPage ==
  \A r \in Runs :
    (run[r].route = "vision" /\ run[r].images > 0 /\ run[r].pc = "extracted")
      => /\ run[r].visionRequests = run[r].images
         /\ run[r].extractedForms = run[r].pageForms

\* the reference rule of the detector, with "at least 50" words
referenceScanned(rawText) ==
  \/ Length(rawText) > 0 /\ 10 * rawText.readable < 3 * Length(rawText)
  \/ rawText.encoded /\ ~(rawText.words >= ActualWordsThreshold)

\* C6: the routing decision is the reference rule: scanned iff the readable
\* ratio is below 0.3, or a stream/object marker is present and there are
\* fewer than 50 words of four letters or more.
C6_DetectorMatchesReference ==
  (input.fn = "detector" /\ output.done)
    => (output.result <=> referenceScanned(input.rawText))

\* C7: a run the detector routes to the vision path sends no text completion
\* request, and a run that sends one was routed to the text path before.
C7_ScannedSkipsTextRequest ==
  \A r \in Runs :
    /\ (run[r].route = "vision") => run[r].textRequests = 0
    /\ (run[r].textRequests > 0) => run[r].route = "text"

\* a run routed to the vision path that requested a page and ended
C7_Witness ==
  \E r \in Runs :
    /\ run[r].route = "vision"
    /\ run[r].visionRequests > 0
    /\ run[r].pc = "done"

\* C8: with a key, a document whose raw text is the empty string goes to the
\* vision path.
C8_EmptyTextSelectsVision ==
  \A r \in Runs :
    (/\ run[r].route \in {"text", "vision"}
     /\ Length(extractRawTextFromPDF(Documents[run[r].pdf])) = 0)
      => run[r].route = "vision"

\* the candidates the four accepted shapes denote
fourShapes(content) ==
  CASE content.kind = "array" -> content.elems
    [] content.kind = "object" /\ content.responses.set = "array" -> content.responses.items
    [] content.kind = "object" /\ content.responses.set # "array"
         /\ content.surveys.set = "array" -> content.surveys.items
    [] OTHER -> <<Item(content.self)>>

\* C9: the text and the vision variant read the same four shapes: a bare
\* array, an object with a responses array, an object with a surveys array,
\* and a bare object taken as a list of one.
C9_SameFourShapes ==
  (input.fn = "candidates" /\ output.done)
    => output.result = fourShapes(input.content)

\* C10: validateRating returns the numeric value of a number or a numeric
\* string unchanged iff it lies within the bounds, and null otherwise; a
\* numeric string gives what the number it spells gives.
C10_RatingCoercion ==
  (input.fn = "validateRating" /\ output.done /\ input.value.k \in {"num", "numstr"})
    => output.result =
         IF input.min * 10 <= input.value.n /\ input.value.n <= input.max * 10
         THEN Num(input.value.n) ELSE Null

\* C11: validateText returns the trimmed string iff the value is a string
\* whose trimmed length is between 1 and 1000, and null otherwise; applied
\* to its own result it returns that result, null included.
C11_TextTrimmedAndIdempotent ==
  (input.fn = "validateText" /\ output.done)
    => /\ output.result =
            IF /\ IsString(input.value)
               /\ 1 <= Len(trim(input.value.s))
               /\ Len(trim(input.value.s)) <= MaxTextLength
            THEN [input.value EXCEPT !.s = trim(input.value.s)]
            ELSE Null
       /\ output.again = output.result

\* a string of 1000 characters between whitespace is returned trimmed
C11_Witness ==
  /\ input.fn = "validateText"
  /\ output.done
  /\ Len(input.value.s) > MaxTextLength
  /\ output.result # Null
  /\ Len(output.result.s) = MaxTextLength
  /\ output.again = output.result

\* the shape local@domain.tld: no whitespace, one @ after a non-empty local
\* part, and after it a dot with something before and something behind
addressShape(s) ==
  /\ \A i \in 1..Len(s) : s[i] \notin Whitespace
  /\ Cardinality({i \in 1..Len(s) : s[i] = "@"}) = 1
  /\ \E i \in 2..Len(s) :
       /\ s[i] = "@"
       /\ \E j \in (i + 2)..(Len(s) - 1) : s[j] = "."

\* C12: validateEmail returns null for every value that is not a string of
\* the shape local@domain.tld once trimmed, returns the trimmed, lower-cased
\* address for every other, and returns each of its non-null results
\* unchanged.
C12_EmailNormalised ==
  (input.fn = "validateEmail" /\ output.done)
    => /\ output.result =
            IF IsString(input.value) /\ addressShape(trim(input.value.s))
            THEN Str(toLowerCase(trim(input.value.s)))
            ELSE Null
       /\ (output.result # Null)
            => /\ output.again = output.result
               /\ \A i \in 1..Len(output.result.s) : output.result.s[i] \notin {"A", "B"}

\* an address in upper case behind whitespace is accepted and normalised
C12_Witness ==
  /\ input.fn = "validateEmail"
  /\ output.done
  /\ output.result # Null
  /\ Len(output.result.s) < Len(input.value.s)
  /\ \E i \in 1..Len(input.value.s) : input.value.s[i] = "A"
  /\ output.again = output.result

\* the text fields the retention rule names
RetentionTextFields ==
  {"q11_expectations", "q12_overall_rating", "learned_1", "learned_2", "learned_3",
   "suggestions", "comments", "interested_more"}

\* C13: hasMeaningfulSurveyData is false for a response whose fields are all
\* null, and true whenever a rating is non-null, or one of the eight text
\* fields is longer than 5 characters, or a contact field is non-empty.
C13_RetentionRule ==
  (input.fn = "hasMeaningfulSurveyData" /\ output.done)
    => LET o == input.response
       IN /\ (\A f \in SurveyFields : IsNullish(o[f])) => ~output.result
          /\ (\/ \E f \in RatingFields : ~IsNullish(o[f])
              \/ \E f \in RetentionTextFields :
                   IsString(o[f]) /\ Len(o[f].s) > MeaningfulTextLength
              \/ \E f \in ContactFields : IsString(o[f]) /\ Len(o[f].s) > 0)
               => output.result

\* C14: every persisted response has each of q1..q9 unset or within 1..5,
\* q10 unset or within 0..10, every text field unset or a trimmed string of
\* 1 to 1000 characters, and the email unset or a lower-cased address of the
\* canonical shape.
C14_PersistedFieldsValid ==
  \A i \in 1..Len(survey_responses) :
    LET o == survey_responses[i].form
    IN /\ \A f \in LikertFields :
            \/ IsNullish(o[f])
            \/ o[f].k = "num" /\ LikertMin * 10 <= o[f].n /\ o[f].n <= LikertMax * 10
       /\ \/ IsNullish(o["q10_rating"])
          \/ /\ o["q10_rating"].k = "num"
             /\ RecommendMin * 10 <= o["q10_rating"].n
             /\ o["q10_rating"].n <= RecommendMax * 10
       /\ \A f \in TextFields :
            \/ IsNullish(o[f])
            \/ /\ IsString(o[f])
               /\ trim(o[f].s) = o[f].s
               /\ 1 <= Len(o[f].s) /\ Len(o[f].s) <= MaxTextLength
       /\ \/ IsNullish(o["email"])
          \/ /\ IsString(o["email"])
             /\ addressShape(o["email"].s)
             /\ toLowerCase(o["email"].s) = o["email"].s

\* a persisted response whose rating, text and email came out of validation
C14_Witness ==
  \E i \in 1..Len(survey_responses) :
    LET o == survey_responses[i].form
    IN /\ o["q10_rating"] = Num(0)
       /\ o["comments"] = Str(<<"a", "a">>)
       /\ o["email"] = Str(<<"a", "@", "b", ".", "c">>)

\* C15: every persisted response is meaningful or is the placeholder of its
\* job; a run persists the placeholder only when its path extracted nothing,
\* and then persists nothing else.
C15_MeaningfulOrPlaceholder ==
  /\ \A i \in 1..Len(survey_responses) :
       \/ hasMeaningfulSurveyData(survey_responses[i].form)
       \/ survey_responses[i] = PlaceholderRow(survey_responses[i].upload_id)
  /\ \A r \in Runs :
       (run[r].inserted # <<>>)
         => \/ /\ run[r].yielded = 0
               /\ run[r].inserted = <<PlaceholderRow(Job(r))>>
            \/ /\ run[r].yielded > 0
               /\ \A i \in 1..Len(run[r].inserted) :
                    /\ hasMeaningfulSurveyData(run[r].inserted[i].form)
                    /\ run[r].inserted[i] # PlaceholderRow(Job(r))

\* a run that persisted a meaningful response after a run that persisted the
\* placeholder
C15_Witness ==
  /\ \E i \in 1..Len(survey_responses) :
       survey_responses[i] = PlaceholderRow(survey_responses[i].upload_id)
  /\ \E r \in Runs :
       /\ run[r].pc = "done"
       /\ run[r].yielded > 0
       /\ run[r].inserted # <<>>

\* C16: splitIntoFormSections returns at most 50 sections, and at least one
\* for every non-empty text, short texts and texts that reach the merge
\* step included.
C16_SectionCount ==
  (input.fn = "splitIntoFormSections" /\ output.done)
    => /\ Len(output.result) <= MaxSections
       /\ (Length(input.text) > 0) => Len(output.result) >= 1

\* a text of 50 characters or fewer comes back as its one section
C16_Witness ==
  /\ input.fn = "splitIntoFormSections"
  /\ output.done
  /\ Length(input.text) > 0
  /\ Length(input.text) <= MinSectionLength
  /\ output.result = <<input.text.toks>>

\* the sections the separator cascade leaves of the text given
cascadeSections == applySeparators(<<input.text.toks>>, 1)

\* the merge step has run on the text given
mergeRan ==
  /\ input.fn = "splitIntoFormSections"
  /\ output.done
  /\ Len(cascadeSections) > MergeTrigger

RECURSIVE Flatten(_, _, _)
\* the tokens of seqs[lo..hi] in order
Flatten(seqs, lo, hi) ==
  IF lo > hi THEN <<>>
  ELSE IF lo = hi THEN seqs[lo]
  ELSE Flatten(seqs, lo, (lo + hi) \div 2) \o Flatten(seqs, (lo + hi) \div 2 + 1, hi)

\* the block joins two sections or more
joined(block) == \E i \in 1..Len(block) : block[i] = Space

\* the first of the sections a block is made of
firstSection(block) ==
  IF joined(block)
  THEN SubSeq(block, 1, (CHOOSE i \in 1..Len(block) :
                           block[i] = Space /\ \A j \in 1..(i - 1) : block[j] # Space) - 1)
  ELSE block

\* C17 as claimed: when more than 15 sections remain, every merged block but
\* the last is at least 1500 characters long.
C17_BlocksAtLeastLimit ==
  mergeRan
    => \A i \in 1..(Len(output.result) - 1) : TokLen(output.result[i]) >= MergeLimit

\* C17 as amended: when more than 15 sections remain, the merge step joins
\* adjacent sections in order; a section is added to the current block only
\* while the block's length plus the section's length is below 1500, so a
\* block of two sections or more is at most 1500 characters long, and a
\* block is closed only when the next section would bring it to 1500
\* characters or more.
C17_BlocksBelowLimit ==
  mergeRan
    => LET blocks == output.result
       IN /\ SelectSeq(Flatten(blocks, 1, Len(blocks)), LAMBDA t : t # Space)
               = Flatten(cascadeSections, 1, Len(cascadeSections))
          /\ \A i \in 1..Len(blocks) :
               joined(blocks[i]) => TokLen(blocks[i]) <= MergeLimit
          /\ \A i \in 1..(Len(blocks) - 1) :
               TokLen(blocks[i]) + 1 + TokLen(firstSection(blocks[i + 1])) >= MergeLimit

\* more than 15 sections merged into several blocks of joined sections
C17_Witness ==
  /\ mergeRan
  /\ Len(output.result) >= 2
  /\ \A i \in 1..Len(output.result) : joined(output.result[i])

\* the strategy is among those the cascade ran
ran(strategy) == \E i \in 1..Len(output.attempted) : output.attempted[i] = strategy

\* C18: the pattern scan is attempted iff the structural extraction yields
\* fewer than 100 characters, and the raw decode iff the text held after
\* that step has fewer than 50; the strategies run in this order and the
\* cascade holds the text of the last one it ran.
C18_CascadeThresholds ==
  (input.fn = "cascade" /\ output.done)
    => LET pdf == input.pdf
           structural == extractTextFromPDFStructure(pdf)
           held == IF ran("ocr") THEN extractTextWithOCRLike(pdf) ELSE structural
       IN /\ ran("ocr") <=> Length(structural) < StructureThreshold
          /\ ran("raw") <=> Length(held) < OCRLikeThreshold
          /\ output.attempted \in
               {<<"structure">>, <<"structure", "ocr">>, <<"structure", "raw">>,
                <<"structure", "ocr", "raw">>}
          /\ output.result = IF ran("raw") THEN extractRawTextFromPDF(pdf) ELSE held

\* 99 structural characters call for the pattern scan, whose 50 characters
\* are enough to stop there
C18_Witness ==
  /\ input.fn = "cascade"
  /\ output.done
  /\ Length(extractTextFromPDFStructure(input.pdf)) = StructureThreshold - 1
  /\ Length(extractTextWithOCRLike(input.pdf)) = OCRLikeThreshold
  /\ output.attempted = <<"structure", "ocr">>

\* C19: a strategy that fails inside yields the empty string, whatever it
\* had gathered, and the cascade goes on to the next strategy; when the
\* last one fails the cascade holds the empty string.
C19_FailureIsEmptyText ==
  (input.fn = "cascade" /\ output.done)
    => LET pdf == input.pdf
       IN /\ pdf.structure.fails
               => extractTextFromPDFStructure(pdf) = EmptyText /\ ran("ocr")
          /\ (ran("ocr") /\ pdf.ocr.fails)
               => extractTextWithOCRLike(pdf) = EmptyText /\ ran("raw")
          /\ (ran("raw") /\ pdf.raw.fails)
               => extractRawTextFromPDF(pdf) = EmptyText /\ output.result = EmptyText

\* the first two strategies fail after gathering text and the third finds
\* the text the cascade holds
C19_Witness ==
  /\ input.fn = "cascade"
  /\ output.done
  /\ input.pdf.structure.fails /\ Length(input.pdf.structure.text) > 0
  /\ input.pdf.ocr.fails /\ Length(input.pdf.ocr.text) > 0
  /\ ~input.pdf.raw.fails
  /\ output.attempted = <<"structure", "ocr", "raw">>
  /\ output.result = input.pdf.raw.text
  /\ Length(output.result) > 0

\* C20: a run takes the LLM path or sends an LLM request only when the
\* creator's stored settings hold an API key and enabled = true; with the
\* stored setting disabled or absent the run takes the heuristic path.
C20_LLMOnlyWhenStoredEnabled ==
  \A r \in Runs :
    /\ (run[r].route \in {"text", "vision"}
          \/ run[r].textRequests > 0 \/ run[r].visionRequests > 0)
         => run[r].hasKey /\ run[r].storedEnabled
    /\ (run[r].route # "" /\ ~run[r].storedEnabled) => run[r].route = "traditional"

\* C21: the method of a success summary is the LLM marker only when an LLM
\* call produced the persisted responses, and the heuristic marker when no
\* API key was configured, when the LLM path fell back to the heuristic
\* path, or when only the placeholder was persisted.
C21_MethodNamesThePath ==
  \A r \in Runs :
    (run[r].response.sent /\ run[r].response.success)
      => /\ run[r].response.method = "OpenAI"
              => /\ run[r].route \in {"text", "vision"}
                 /\ ~run[r].usedTraditional
                 /\ run[r].yielded > 0
         /\ (~run[r].hasKey \/ run[r].usedTraditional \/ run[r].yielded = 0)
              => run[r].response.method = "Traditional"

\* the persisted responses tagged with job j
ResponsesOf(j) == SelectSeq(survey_responses, LAMBDA row : row.upload_id = j)

\* C22: whenever a job is completed, its processed_forms and total_forms
\* both equal the number of persisted responses tagged with its id, and a
\* success summary for the job reports that number.
C22_CountsMatchPersisted ==
  \A j \in Jobs :
    processing_status[j] = "completed"
      => /\ processed_forms[j] = Len(ResponsesOf(j))
         /\ total_forms[j] = Len(ResponsesOf(j))
         /\ \A r \in Runs :
              (run[r].uploadId = j /\ run[r].response.sent /\ run[r].response.success)
                => run[r].response.formsProcessed = Len(ResponsesOf(j))

\* the sections processPDFWithTraditionalMethods cuts the document into
sectionsOf(pdf) == splitIntoFormSections(cleanAndNormalizeText(cascadeText(pdf)))

\* C23: for a document of three or more "Name:" blocks, each longer than a
\* section's minimum, splitIntoFormSections yields at least three sections,
\* extractSurveyDataEnhanced yields a meaningful response for each of them
\* and processPDFWithTraditionalMethods returns at least three responses.
C23_HeuristicPathYieldsResponses ==
  (/\ input.fn = "processPDFWithTraditionalMethods"
   /\ output.done
   /\ input.blocks >= 3
   /\ input.len > MinSectionLength)
    => LET sections == sectionsOf(input.pdf)
       IN /\ Len(sections) >= 3
          /\ \A i \in 1..Len(sections) :
               hasMeaningfulSurveyData(
                 extractSurveyDataEnhanced(sections[i], input.courseName))
          /\ Len(output.result) >= 3

\* C24: the placeholder is produced only after every strategy in the chain
\* has been tried: a run that pushes the placeholder has run the heuristic
\* path, also when its LLM call succeeded and yielded no meaningful response.
C24_PlaceholderAfterHeuristic ==
  \A r \in Runs :
    run[r].yielded = 0 => run[r].usedTraditional

\* C25: nothing guards a job against a second run: a run that sets
\* `processing` goes on to read the upload whatever the job's status and
\* whatever another run is doing, and a run whose insert succeeds appends
\* its own rows to those already persisted.
C25_NoGuardEachRunInserts ==
  [][\A r \in Runs :
       /\ (run[r].pc = "setProcessing" /\ run'[r].pc # "setProcessing")
            => /\ run'[r].pc = "getUpload"
               /\ processing_status'[run[r].uploadId] = "processing"
       /\ (run[r].pc = "extracted" /\ run'[r].pc = "complete")
            => /\ Len(run'[r].inserted) >= 1
               /\ survey_responses' = survey_responses \o run'[r].inserted]_vars

\* two runs for job A in flight together, the second one a retry: the first
\* has inserted and not yet written its counts when the second, having
\* inserted too, completes the job; responses are persisted twice and
\* processed_forms is smaller than their number
C25_Witness ==
  /\ run[1].uploadId = "A" /\ run[2].uploadId = "A"
  /\ run[2].retry
  /\ run[1].pc = "complete" /\ run[2].pc = "done"
  /\ Len(run[1].inserted) >= 1 /\ Len(run[2].inserted) >= 1
  /\ processing_status["A"] = "completed"
  /\ processed_forms["A"] < Len(ResponsesOf("A"))
  /\ \E i, k \in 1..Len(survey_responses) :
       i # k /\ survey_responses[i] = survey_responses[k]

\* C26: once the handler has answered, a job the run has set to
\* `processing` is completed or failed, also when a status update of the
\* run was rejected.
C26_NeverLeftProcessing ==
  \A r \in Runs :
    (/\ run[r].pc = "done"
     /\ \E i \in 1..Len(run[r].writes) :
          run[r].writes[i] = [status |-> "processing", applied |-> TRUE])
      => processing_status[run[r].uploadId] \in {"completed", "failed"}

\* C27: on the vision path the page requests are sequential and in page
\* order: at most one LLM request is in flight per run, the request of page
\* N + 1 is the one in flight exactly when N pages have been answered, and
\* the responses returned are ordered by page number.
C27_PagesSequentialInOrder ==
  \A r \in Runs :
    /\ run[r].inFlight \in {0, 1}
    /\ run[r].inFlight = 1 <=> run[r].pc \in {"textCall", "visionCall"}
    /\ run[r].pc = "visionCall"
         => /\ run[r].visionRequests = run[r].i + 1
            /\ run[r].i < run[r].images
            /\ Len(run[r].allExtractedData) = Len(run[r].pages)
    /\ Len(run[r].pages) = Len(run[r].pageForms)
    /\ \A a, b \in 1..Len(run[r].pages) : a < b => run[r].pages[a] <= run[r].pages[b]
    /\ \A a \in 1..Len(run[r].pages) : run[r].pages[a] \in 1..run[r].visionRequests
    /\ (run[r].route = "vision" /\ run[r].pc = "extracted" /\ ~run[r].usedTraditional)
         => run[r].extractedForms = run[r].pageForms

\* a two-page document both of whose pages yielded a response
C27_Witness ==
  \E r \in Runs :
    /\ run[r].route = "vision"
    /\ run[r].pc = "extracted"
    /\ run[r].images = 2
    /\ run[r].visionRequests = 2
    /\ run[r].pages = <<1, 2>>
    /\ Len(run[r].extractedForms) = 2

\* C28: a step of a run for job j changes the status and the counts of job
\* j only and adds only responses tagged with j: the status, the counts and
\* the responses of every other job stay as they are, however the runs
\* interleave.
C28_RunWritesOwnJobOnly ==
  [][\E r \in Runs :
       /\ \A q \in Runs \ {r} : run'[q] = run[q]
       /\ LET j == IF run'[r].pc = "idle" THEN run[r].uploadId ELSE run'[r].uploadId
              added == SubSeq(survey_responses', Len(survey_responses) + 1,
                              Len(survey_responses'))
          IN /\ \A k \in Jobs \ {j} :
                  /\ processing_status'[k] = processing_status[k]
                  /\ total_forms'[k] = total_forms[k]
                  /\ processed_forms'[k] = processed_forms[k]
             /\ survey_responses' = survey_responses \o added
             /\ \A i \in 1..Len(added) : added[i].upload_id = j]_vars

\* runs for job A and job B interleave: B is completed with its own
\* response and counts while the run for A, which has inserted, is not done
C28_Witness ==
  /\ run[1].uploadId = "A" /\ run[1].pc = "complete"
  /\ run[2].uploadId = "B" /\ run[2].pc = "done"
  /\ processing_status = [j \in Jobs |-> IF j = "A" THEN "processing" ELSE "completed"]
  /\ Len(ResponsesOf("A")) >= 1
  /\ Len(ResponsesOf("B")) >= 1
  /\ processed_forms["B"] = Len(ResponsesOf("B"))
  /\ processed_forms["A"] = 0

\* the cleaned text a strategy returns
outputOf(strategy, pdf) ==
  CASE strategy = "structure" -> extractTextFromPDFStructure(pdf)
    [] strategy = "ocr" -> extractTextWithOCRLike(pdf)
    [] OTHER -> extractRawTextFromPDF(pdf)

\* C29: the text the cascade retains is never shorter than the output of a
\* strategy that was run.
C29_RetainsLongestOutput ==
  (input.fn = "cascade" /\ output.done)
    => \A i \in 1..Len(output.attempted) :
         Length(output.result) >= Length(outputOf(output.attempted[i], input.pdf))

\* C30: every persisted response carries the course_name of its job's
\* course_uploads record, whatever course_name the LLM returned in the
\* candidate, on the text path, the vision path, the heuristic path and for
\* the placeholder.
C30_PersistedCourseNameIsTheJobs ==
  /\ \A i \in 1..Len(survey_responses) :
       survey_responses[i].form["course_name"] = CourseName(survey_responses[i].upload_id)
  /\ \A r \in Runs : \A i \in 1..Len(run[r].extractedForms) :
       run[r].extractedForms[i]["course_name"] = CourseName(run[r].uploadId)

\* a placeholder is persisted, and a run on the vision path has inserted a
\* response made from a candidate that carried a course_name of its own
C30_Witness ==
  /\ \E i \in 1..Len(survey_responses) :
       survey_responses[i] = PlaceholderRow(survey_responses[i].upload_id)
  /\ \E r \in Runs :
       /\ run[r].route = "vision"
       /\ ~run[r].usedTraditional
       /\ run[r].pc = "complete"
       /\ Len(run[r].inserted) >= 1
       /\ run[r].inserted[1].form["q1_rating"] = GoodCandidate["q1_rating"]
       /\ GoodCandidate["course_name"] # CourseName(run[r].uploadId)
       /\ run[r].inserted[1] = survey_responses[Len(survey_responses)]

====
